---- MODULE Spec2Model ----
(***************************************************************************)
(* littleci: the job engine (queue/mod.rs, queue/job.rs), the store        *)
(* operations it uses (model/queues.rs, model/repositories.rs) and the     *)
(* HTTP handlers that drive it (server/mod.rs), as a state machine.        *)
(*                                                                         *)
(* Threads of the program:                                                 *)
(*   - the request threads of the HTTP server (Workers of them), each      *)
(*     running one handler at a time, step by step;                        *)
(*   - one drain thread per QueueService::notify (thread::spawn in         *)
(*     CommandRunner::process);                                            *)
(*   - the main thread, which constructs the QueueManager.                 *)
(* A step is one access to what threads share: a statement on the queue    *)
(* and queue_logs tables, a try_lock or unlock of a processing_queue, a     *)
(* thread::spawn. The repositories table and the queues map are written     *)
(* by request handlers only, and the single request thread runs one         *)
(* handler at a time, so what a handler does to them is one step.           *)
(***************************************************************************)
EXTENDS Integers, Sequences, FiniteSets, Bags, TLC

\* ------------------------------------------------------------------ bounds

\* What happens to the program in one run, counted together:
\*   - notify requests that get as far as QueueItem::new,
\*   - requests that write the repositories table (create, update, delete),
\*   - things that go wrong: a store write that returns Err, a log directory
\*     or log file that cannot be created, a child that cannot be launched, is
\*     killed by a signal or exits with a code other than 0.
MaxEvents == 3

\* ------------------------------------------------------- program constants

\* Config::build(..).workers(1): the HTTP server handles requests on one thread.
Workers == 1
\* const SUCCESS_EXIT_CODE: i32 = 0
SUCCESS_EXIT_CODE == 0
\* ExecutionStatus::Failed(-1) when the child cannot be launched.
SPAWN_FAILED_CODE == -1

\* ---------------------------------------------------------------- options

\* Option<T>: None is the empty tuple, Some(x) the one-element tuple.
None == <<>>
Some(x) == <<x>>
IsSome(o) == o # <<>>
Unwrap(o) == o[1]

\* -------------------------------------------------------------- kebab_case

Upper == {"A", "B"}
Lower == {"a", "b"}
Digit == {"1"}
AlphaNumeric == Upper \cup Lower \cup Digit

\* A conversion that changes the case of every letter.
to_swapped_case(c) ==
    CASE c = "A" -> "a"
      [] c = "B" -> "b"
      [] c = "a" -> "A"
      [] c = "b" -> "B"
      [] OTHER -> c

to_lowercase(c) ==
    CASE c = "A" -> "a"
      [] c = "B" -> "b"
      [] OTHER -> c

RECURSIVE find_iter(_, _, _)
\* Regex ([A-Za-z0-9])+ : the maximal alphanumeric runs of s, left to right.
find_iter(s, cur, parts) ==
    IF s = <<>>
    THEN IF cur = <<>> THEN parts ELSE Append(parts, cur)
    ELSE IF Head(s) \in AlphaNumeric
         THEN find_iter(Tail(s), Append(cur, Head(s)), parts)
         ELSE find_iter(Tail(s), <<>>,
                        IF cur = <<>> THEN parts ELSE Append(parts, cur))

RECURSIVE join(_)
join(parts) ==
    IF parts = <<>> THEN <<>>
    ELSE IF Len(parts) = 1 THEN parts[1]
    ELSE parts[1] \o <<"-">> \o join(Tail(parts))

kebab_case(original) ==
    LET joined == join(find_iter(original, <<>>, <<>>))
    IN  [i \in 1..Len(joined) |-> to_lowercase(joined[i])]

\* Repository names the API is called with, and the slugs they give.
Names == { <<"A">>, <<"B">> }
Slugs == { kebab_case(n) : n \in Names }

\* --------------------------------------------------------- ExecutionStatus

Cancelled == <<"Cancelled">>
Queued == <<"Queued">>
Running == <<"Running">>
Failed(exit_code) == <<"Failed", exit_code>>
Completed == <<"Completed">>
Unknown == <<"Unknown">>

\* The conversion with the exit code of Failed left out.
StatusIntoWithoutCode(status) ==
    CASE status = Cancelled -> <<"cancelled", None>>
      [] status = Queued -> <<"queued", None>>
      [] status = Running -> <<"running", None>>
      [] status[1] = "Failed" -> <<"failed", None>>
      [] status = Completed -> <<"completed", None>>
      [] OTHER -> <<"unknown", None>>

\* impl Into<(String, Option<i32>)> for ExecutionStatus
StatusInto(status) ==
    CASE status = Cancelled -> <<"cancelled", None>>
      [] status = Queued -> <<"queued", None>>
      [] status = Running -> <<"running", None>>
      [] status[1] = "Failed" -> <<"failed", Some(status[2])>>
      [] status = Completed -> <<"completed", None>>
      [] OTHER -> <<"unknown", None>>

\* impl From<(&str, &Option<i32>)> for ExecutionStatus
StatusFrom(status, exit_code) ==
    CASE status = "cancelled" /\ exit_code = None -> Cancelled
      [] status = "queued" /\ exit_code = None -> Queued
      [] status = "running" /\ exit_code = None -> Running
      [] status = "failed" /\ IsSome(exit_code) -> Failed(Unwrap(exit_code))
      [] status = "completed" /\ exit_code = None -> Completed
      [] OTHER -> Unknown

\* What Command::status gives once the child has ended: Some(exit code), or
\* None for termination by a signal.
AbnormalOutcomes == {Some(7), None}

\* ------------------------------------------------------------------- state

VARIABLES
    repositories,   \* table repositories: id -> Option<RepositoryRecord>
    queue,          \* table queue: the job rows, in insertion (rowid) order
    queue_logs,     \* table queue_logs: queue_id -> its status-log rows, in id order
    queues,         \* QueueManager.queues: slug -> index into services, 0 = no entry
    services,       \* every QueueService::new so far
    threads,        \* every thread::spawn of CommandRunner::process so far
    http,           \* the request threads of the HTTP server
    main,           \* the main thread: "new" before QueueManager::new, then "serving";
                    \* "waiting" inside QueueManager::shutdown, "returned" after it
    job_count,      \* QueueItem::new calls so far: the clock and the id source
    faults,         \* things gone wrong so far
    repository_writes, \* requests that wrote the repositories table so far
    started,        \* history: the job ids drains have taken to Running
    executions,     \* history: the children spawned so far, a bag of job ids
    probe           \* the pass of QueueManager::shutdown over the map

vars == <<repositories, queue, queue_logs, queues, services, threads, http, main,
          job_count, faults, repository_writes, started, executions, probe>>

RepoIds == 1..Cardinality(Slugs)
HandlerIds == 1..Workers

\* The three tables, the engine's memory, the counters.
store == <<repositories, queue, queue_logs>>
engine == <<queues, services, threads>>
counters == <<job_count, faults, repository_writes>>

\* The secret Repositories::create generates for the repository with this id.
GeneratedSecret(id) == <<id>>
\* The empty string a Repository deserialized from a request carries as secret.
EmptySecret == <<>>

\* A row of table repositories. triggers, webhooks and variables are what a
\* request body that names none deserializes to (#[serde(default)]): the empty
\* lists and the empty map.
RepositoryRecord(id, name, slug, secret, deleted) ==
    [id |-> id, name |-> name, slug |-> slug, secret |-> secret, deleted |-> deleted,
     triggers |-> <<>>, webhooks |-> <<>>, variables |-> <<>>]

\* impl From<&QueueItem> for NewQueueRecord
NewQueueRecord(item) ==
    [id |-> item.id, repository_id |-> item.repository_id,
     status |-> StatusInto(item.status)[1], exit_code |-> StatusInto(item.status)[2],
     data |-> item.data, created_at |-> item.created_at]

NewQueueLogRecord(status) ==
    [status |-> StatusInto(status)[1], exit_code |-> StatusInto(status)[2]]

\* No pass of shutdown over the map: no service left to ask, no service found
\* processing, no lock held by is_processing.
NoProbe == [remaining |-> {}, active |-> FALSE, held |-> 0]

\* Things that can go wrong, and how many have.
FaultKinds == {"store", "log", "child", "webhook"}
FaultCount == faults["store"] + faults["log"] + faults["child"] + faults["webhook"]
Events == job_count + repository_writes + FaultCount
MayFail == Events < MaxEvents
Fault(kind) == faults' = [faults EXCEPT ![kind] = @ + 1]

\* A store write returns Ok (TRUE) or Err (FALSE).
WriteOutcomes == IF MayFail THEN {TRUE, FALSE} ELSE {TRUE}
WriteFault(ok) == IF ok THEN UNCHANGED faults ELSE Fault("store")

\* ------------------------------------------------------------ store reads

\* Repositories::find_by_id
find_by_id(repository_id) ==
    IF repository_id \in RepoIds THEN repositories[repository_id] ELSE None

\* Repositories::find_by_slug: the first row (rowid order) with that slug.
find_by_slug(repository_slug) ==
    LET hits == {i \in RepoIds : IsSome(repositories[i])
                                 /\ Unwrap(repositories[i]).slug = repository_slug}
    IN  IF hits = {} THEN None
        ELSE repositories[CHOOSE i \in hits : \A j \in hits : i <= j]

\* Repositories::all: the ids of the rows with deleted = 0.
all_repositories ==
    {i \in RepoIds : IsSome(repositories[i]) /\ ~Unwrap(repositories[i]).deleted}

\* The row of a job id (ids are unique: nanoid).
Row(job_id) == queue[CHOOSE k \in 1..Len(queue) : queue[k].id = job_id]
JobIds == {queue[k].id : k \in 1..Len(queue)}

\* next_queued with ORDER BY created_at DESC.
next_queued_desc(record_id) ==
    LET cand == {k \in 1..Len(queue) : queue[k].repository_id = record_id
                                       /\ queue[k].status = "queued"}
    IN  IF cand = {} THEN None
        ELSE Some(queue[CHOOSE k \in cand : \A m \in cand :
                            queue[k].created_at >= queue[m].created_at].id)

\* next_queued without the filter on status.
next_queued_any_status(record_id) ==
    LET cand == {k \in 1..Len(queue) :
                    /\ queue[k].repository_id = record_id
                    /\ queue[k].status \in {StatusInto(Queued)[1], StatusInto(Running)[1]}}
    IN  IF cand = {} THEN None
        ELSE Some(queue[CHOOSE k \in cand : \A m \in cand :
                            queue[k].created_at <= queue[m].created_at].id)

\* Queues::next_queued: filter repository_id and status = "queued", ORDER BY
\* created_at ASC, first. Option of the job id.
next_queued(record_id) ==
    LET cand == {k \in 1..Len(queue) : queue[k].repository_id = record_id
                                       /\ queue[k].status = StatusInto(Queued)[1]}
    IN  IF cand = {} THEN None
        ELSE Some(queue[CHOOSE k \in cand : \A m \in cand :
                            queue[k].created_at <= queue[m].created_at].id)

\* -------------------------------------------------------------------- Init

\* A request thread: where it is, the QueueService and QueueItem of its push, the
\* result it answers with, and what the client sent where a guard reads it.
IdleHandler ==
    [pc |-> "idle", service |-> 0, item |-> None, result |-> "none", request |-> None]

\* A store with one repository and no job; nothing constructed yet.
Init ==
    /\ repositories = [i \in RepoIds |->
                         IF i = 1
                         THEN Some(RepositoryRecord(1, <<"A">>, kebab_case(<<"A">>),
                                                    GeneratedSecret(1), FALSE))
                         ELSE None]
    /\ queue = <<>>
    /\ queue_logs = [id \in 1..MaxEvents |-> <<>>]
    /\ queues = [s \in Slugs |-> 0]
    /\ services = <<>>
    /\ threads = <<>>
    /\ http = [w \in HandlerIds |-> IdleHandler]
    /\ main = "new"
    /\ job_count = 0
    /\ faults = [k \in FaultKinds |-> 0]
    /\ repository_writes = 0
    /\ started = {}
    /\ executions = EmptyBag
    /\ probe = NoProbe

\* ------------------------------------------------------------ QueueManager

\* QueueService::new: the processing_queue mutex starts unlocked.
NewQueueService(repository_id) ==
    [repository_id |-> repository_id, processing_queue |-> FALSE,
     service_state |-> "Active"]

\* The threads of a service: those that CommandRunner::process has spawned and
\* that have not yet come to try_lock (their number), and the one, if any, that
\* holds processing_queue (its place in the loop, its item and item.status, the
\* webhooks of the repository it read at the top of the loop, and the requests
\* call_webhooks has sent for the item).
NoThreads ==
    [spawned |-> 0, pc |-> "none", item |-> 0, status |-> Queued, webhooks |-> <<>>,
     posts |-> <<>>, variables |-> <<>>, env |-> <<>>]

\* A notify that spawns no thread.
NotSpawned(of) == of

\* thread::spawn in CommandRunner::process: one more thread before try_lock.
SpawnedThread(of) == [of EXCEPT !.spawned = @ + 1]

\* QueueManager::new: a service per non-deleted repository, notified once and
\* stored under the repository's slug.
QueueManagerNew ==
    /\ main = "new"
    /\ LET ids == all_repositories
           n == Cardinality(ids)
           rank(i) == Cardinality({j \in ids : j <= i})
           nth(k) == CHOOSE i \in ids : rank(i) = k
       IN  /\ services' = [k \in 1..n |-> NewQueueService(nth(k))]
           /\ threads' = [k \in 1..n |-> SpawnedThread(NoThreads)]
           /\ queues' = [s \in Slugs |->
                           LET with == {i \in ids : Unwrap(repositories[i]).slug = s}
                           IN  IF with = {} THEN 0
                               ELSE rank(CHOOSE i \in with : \A j \in with : j <= i)]
    /\ main' = "serving"
    /\ UNCHANGED <<store, http, counters, started, executions, probe>>

\* ---------------------------------------------------------- request threads

\* The server takes requests from the end of QueueManager::new until the process
\* exits, also while QueueManager::shutdown waits.
Serving(w) == main \in {"serving", "waiting"} /\ http[w].pc = "idle"

\* QueueItem::new: a fresh id, status Queued, created_at = Utc::now(). The
\* handlers run one after the other, so each reading of the clock is later than
\* the one before: created_at is the number of the reading.
NewQueueItem(repository_id) ==
    [id |-> job_count + 1, repository_id |-> repository_id, status |-> Queued,
     data |-> <<>>, created_at |-> job_count + 1]

\* A handler that answers Ok whatever QueueManager::push returned.
RespondOk(w, result) ==
    http' = [http EXCEPT ![w] = [pc |-> "respond", service |-> 0, item |-> None,
                                 result |-> "ok", request |-> None]]

\* notify_new_job returns; the response is still to be written.
Respond(w, result) ==
    http' = [http EXCEPT ![w] = [IdleHandler EXCEPT !.pc = "respond", !.result = result]]

DELETED_MESSAGE == "Repository has been deleted."
NOT_FOUND_MESSAGE == "Could not find repository"

\* push with the second block creating the service whatever repository.deleted.
PushDecisionInstallDeleted(repository_slug) ==
    IF IsSome(find_by_slug(repository_slug))
    THEN IF queues[repository_slug] # 0
         THEN IF Unwrap(find_by_slug(repository_slug)).deleted THEN "deleted" ELSE "item"
         ELSE "install"
    ELSE "missing"

\* QueueManager::push up to service_item.expect(): what the two blocks decide.
\*   "item": the slug has an entry in the map and a live repository;
\*   "install": no service_item after the first block and a live repository, so
\*              a new QueueService is inserted under the slug;
\*   "deleted", "missing": the two Err returns.
PushDecision(repository_slug) ==
    LET repository == find_by_slug(repository_slug)
    IN  IF IsSome(repository)
        THEN IF Unwrap(repository).deleted THEN "deleted"
             ELSE IF queues[repository_slug] # 0 THEN "item" ELSE "install"
        ELSE "missing"

\* notify_new_job for the request of handler w: QueueManager::push up to
\* QueueItem::new, or its Err.
Push(w, repository_slug, request) ==
    /\ Events < MaxEvents
    /\ LET decision == PushDecision(repository_slug)
           repository == Unwrap(find_by_slug(repository_slug))
       IN  CASE decision = "item" ->
                  /\ http' = [http EXCEPT ![w] =
                        [@ EXCEPT !.pc = "push_insert",
                                  !.service = queues[repository_slug],
                                  !.item = Some(NewQueueItem(repository.id)),
                                  !.request = request]]
                  /\ job_count' = job_count + 1
                  /\ UNCHANGED <<services, threads, queues>>
             [] decision = "install" ->
                  /\ services' = Append(services, NewQueueService(repository.id))
                  /\ threads' = Append(threads, NoThreads)
                  /\ queues' = [queues EXCEPT ![repository_slug] = Len(services) + 1]
                  /\ http' = [http EXCEPT ![w] =
                        [@ EXCEPT !.pc = "push_insert",
                                  !.service = Len(services) + 1,
                                  !.item = Some(NewQueueItem(repository.id)),
                                  !.request = request]]
                  /\ job_count' = job_count + 1
             [] decision = "deleted" ->
                  /\ Respond(w, DELETED_MESSAGE)
                  /\ UNCHANGED <<services, threads, queues, job_count>>
             [] OTHER ->
                  /\ Respond(w, NOT_FOUND_MESSAGE)
                  /\ UNCHANGED <<services, threads, queues, job_count>>
    /\ UNCHANGED <<store, main, faults, repository_writes, started, executions, probe>>

\* A notify request that has passed its guards is taken up.
PushResolve(w, repository_slug) ==
    /\ Serving(w)
    /\ Push(w, repository_slug, None)

\* Queues::push, insert_into(queue): on Err the error is logged and push returns.
PushInsert(w) ==
    /\ http[w].pc = "push_insert"
    /\ \E ok \in WriteOutcomes :
         /\ queue' = IF ok THEN Append(queue, NewQueueRecord(Unwrap(http[w].item)))
                     ELSE queue
         /\ http' = [http EXCEPT ![w].pc = IF ok THEN "push_log" ELSE "push_notify"]
         /\ WriteFault(ok)
    /\ UNCHANGED <<repositories, queue_logs, engine, main, job_count,
                   repository_writes, started, executions, probe>>

\* Queues::add_queue_log_item: insert_into(queue_logs).
add_queue_log_item(item_id, status, ok) ==
    /\ queue_logs' = IF ok
                     THEN [queue_logs EXCEPT ![item_id] =
                              Append(@, NewQueueLogRecord(status))]
                     ELSE queue_logs
    /\ WriteFault(ok)

\* Queues::push, after the row went in: the first status-log row.
PushLog(w) ==
    /\ http[w].pc = "push_log"
    /\ \E ok \in WriteOutcomes :
         add_queue_log_item(Unwrap(http[w].item).id, Unwrap(http[w].item).status, ok)
    /\ http' = [http EXCEPT ![w].pc = "push_notify"]
    /\ UNCHANGED <<repositories, queue, engine, main, job_count, repository_writes,
                   started, executions, probe>>

\* QueueManager::push, queue.notify() and Ok(item): a drain thread is spawned.
PushNotify(w) ==
    /\ http[w].pc = "push_notify"
    /\ threads' = [threads EXCEPT ![http[w].service] = SpawnedThread(@)]
    /\ Respond(w, "ok")
    /\ UNCHANGED <<store, queues, services, main, counters, started, executions, probe>>

\* The response of a notify request is written.
SendResponse(w) ==
    /\ http[w].pc = "respond"
    /\ http' = [http EXCEPT ![w] = IdleHandler]
    /\ UNCHANGED <<store, engine, main, counters, started, executions, probe>>

\* A request that writes the repositories table is taken up and handled.
RepositoryRequest(w) ==
    /\ Serving(w)
    /\ Events < MaxEvents
    /\ repository_writes' = repository_writes + 1
    /\ UNCHANGED <<queue, queue_logs, services, threads, http, main, job_count, started,
                   executions, probe>>

\* Repositories::create: rejected when the slug is taken by any row; otherwise
\* insert_into(repositories) with a fresh id and a generated secret.
Create(w, name) ==
    /\ RepositoryRequest(w)
    /\ \E i \in RepoIds : repositories[i] = None
    /\ \E ok \in WriteOutcomes :
         IF IsSome(find_by_slug(kebab_case(name)))
         THEN UNCHANGED <<repositories, faults>>
         ELSE /\ repositories' =
                   IF ok
                   THEN LET repository_id ==
                              CHOOSE i \in RepoIds :
                                 /\ repositories[i] = None
                                 /\ \A j \in RepoIds : repositories[j] = None => i <= j
                        IN  [repositories EXCEPT ![repository_id] =
                               Some(RepositoryRecord(repository_id, name, kebab_case(name),
                                                     GeneratedSecret(repository_id), FALSE))]
                   ELSE repositories
              /\ WriteFault(ok)
    /\ UNCHANGED queues

\* The Repository a PUT /repositories body deserializes to: slug and secret are
\* skip_deserializing (empty), deleted is skipped (false).
RequestRepository(id, name) == RepositoryRecord(id, name, <<>>, EmptySecret, FALSE)

\* update(repositories.filter(id.eq(..))).set((&repository,
\* slug.eq(kebab_case(name)), RepositorySecret::as_none())): the AsChangeset of
\* RepositoryRecord assigns every column but id from the request's record;
\* RepositorySecret { secret: None } assigns nothing.
SavedRecord(request) ==
    [request EXCEPT !.slug = kebab_case(request.name)]

\* A save without the lookup of the slug.
SaveUnchecked(w, id, name) ==
    /\ RepositoryRequest(w)
    /\ \E ok \in WriteOutcomes :
         /\ repositories' =
               IF ok /\ IsSome(find_by_id(id))
               THEN [repositories EXCEPT ![id] =
                       Some(SavedRecord(RequestRepository(id, name)))]
               ELSE repositories
         /\ WriteFault(ok)
    /\ UNCHANGED queues

\* Repositories::save: rejected when the slug belongs to another id; otherwise
\* the row with the request's id, if there is one, is overwritten.
SaveRepository(w, repository) ==
    /\ RepositoryRequest(w)
    /\ \E ok \in WriteOutcomes :
         LET existing_repository == find_by_slug(kebab_case(repository.name))
         IN  IF /\ IsSome(existing_repository)
                /\ Unwrap(existing_repository).id # repository.id
             THEN UNCHANGED <<repositories, faults>>
             ELSE /\ repositories' =
                       IF ok /\ IsSome(find_by_id(repository.id))
                       THEN [repositories EXCEPT ![repository.id] =
                               Some(SavedRecord(repository))]
                       ELSE repositories
                  /\ WriteFault(ok)
    /\ UNCHANGED queues

\* update_repository with a body that names the id and the name only.
Save(w, id, name) == SaveRepository(w, RequestRepository(id, name))

\* QueueManager::notify_deleted: the map entry under the repository's slug goes.
notify_deleted(repository_id) ==
    LET repository == find_by_id(repository_id)
    IN  IF IsSome(repository)
        THEN [queues EXCEPT ![Unwrap(repository).slug] = 0]
        ELSE queues

\* delete_repository: Repositories::delete_by_id (update .. set deleted = 1),
\* and on Ok QueueManager::notify_deleted.
Delete(w, id) ==
    /\ RepositoryRequest(w)
    /\ \E ok \in WriteOutcomes :
         /\ repositories' =
              IF ok /\ IsSome(repositories[id])
              THEN [repositories EXCEPT ![id] = Some([Unwrap(@) EXCEPT !.deleted = TRUE])]
              ELSE repositories
         /\ queues' = IF ok THEN notify_deleted(id) ELSE queues
         /\ WriteFault(ok)

\* ------------------------------------------------------------ drain threads

ServiceIds == 1..Len(services)

\* The thread that holds processing_queue returns: the MutexGuard is dropped.
Return(t) ==
    /\ threads' = [threads EXCEPT ![t] = [NoThreads EXCEPT !.spawned = threads[t].spawned]]
    /\ services' = [services EXCEPT ![t].processing_queue = FALSE]

\* A return that leaks the guard: the thread ends and processing_queue stays
\* locked.
ReturnLocked(t) ==
    /\ threads' = [threads EXCEPT ![t] = [NoThreads EXCEPT !.spawned = threads[t].spawned]]
    /\ UNCHANGED services

\* `return` inside the loop: the closure ends there and `lock`, a local of the
\* closure, is dropped as on the way out of the loop.
ReturnInLoop(t) == Return(t)

\* A thread that waits for the lock, processing_queue.lock(), and drains once
\* it has it.
ProcessLock(t) ==
    /\ threads[t].spawned > 0
    /\ ~services[t].processing_queue
    /\ services' = [services EXCEPT ![t].processing_queue = TRUE]
    /\ threads' = [threads EXCEPT ![t] =
          [@ EXCEPT !.spawned = @ - 1, !.pc = "find_by_id"]]
    /\ UNCHANGED <<store, queues, http, main, counters, started, executions, probe>>

\* A thread that takes one lock shared by all services: it ends at once when
\* any service is draining.
ProcessTryLockShared(t) ==
    /\ threads[t].spawned > 0
    /\ IF \A u \in ServiceIds : ~services[u].processing_queue
       THEN /\ services' = [services EXCEPT ![t].processing_queue = TRUE]
            /\ threads' = [threads EXCEPT ![t] =
                  [@ EXCEPT !.spawned = @ - 1, !.pc = "find_by_id"]]
       ELSE /\ threads' = [threads EXCEPT ![t].spawned = @ - 1]
            /\ UNCHANGED services
    /\ UNCHANGED <<store, queues, http, main, counters, started, executions, probe>>

\* CommandRunner::process: processing_queue.try_lock(); without the lock the
\* thread ends at once.
ProcessTryLock(t) ==
    /\ threads[t].spawned > 0
    /\ IF ~services[t].processing_queue
       THEN /\ services' = [services EXCEPT ![t].processing_queue = TRUE]
            /\ threads' = [threads EXCEPT ![t] =
                  [@ EXCEPT !.spawned = @ - 1, !.pc = "find_by_id"]]
       ELSE /\ threads' = [threads EXCEPT ![t].spawned = @ - 1]
            /\ UNCHANGED services
    /\ UNCHANGED <<store, queues, http, main, counters, started, executions, probe>>

\* A drain that reads the repository when it starts and keeps it for every job.
RepositoryReadOnce(t) ==
    IF threads[t].item = 0
    THEN Unwrap(find_by_id(services[t].repository_id))
    ELSE [Unwrap(find_by_id(services[t].repository_id))
            EXCEPT !.webhooks = threads[t].webhooks,
                   !.variables = threads[t].variables]

\* let repository = Repositories::new(..).find_by_id(&queue_service.repository_id)
\* inside the loop: the row as it is now.
RepositoryRead(t) == Unwrap(find_by_id(services[t].repository_id))

\* The query of find_by_id in the drain, first::<RepositoryRecord>(..), returns Ok
\* (TRUE) or Err (FALSE).
ReadOutcomes == IF MayFail THEN {TRUE, FALSE} ELSE {TRUE}

\* Top of the loop: the repository is read again; None, for a missing row or a
\* query that returned Err, ends the thread.
ProcessFindRepository(t) ==
    /\ threads[t].pc = "find_by_id"
    /\ \E read \in ReadOutcomes :
         IF read /\ IsSome(find_by_id(services[t].repository_id))
         THEN /\ threads' = [threads EXCEPT ![t] =
                    [@ EXCEPT !.pc = "next_queued", !.item = 0, !.status = Queued,
                              !.webhooks = RepositoryRead(t).webhooks,
                              !.variables = RepositoryRead(t).variables,
                              !.posts = <<>>]]
              /\ UNCHANGED <<services, faults>>
         ELSE /\ ReturnInLoop(t)
              /\ WriteFault(read)
    /\ UNCHANGED <<store, queues, http, main, job_count, repository_writes, started,
                   executions, probe>>

\* impl From<(QueueRecord, Vec<QueueLogRecord>)> for QueueItem: the status of the
\* item next_queued returns, deserialized from the two columns of its row.
ItemStatus(job_id) == StatusFrom(Row(job_id).status, Row(job_id).exit_code)

\* A drain that keeps the status its item was read with.
StartedStatusAsRead(read_status) == read_status

\* item.status = ExecutionStatus::Running, whatever the item was read with.
StartedStatus(read_status) == Running

\* queue_model.next_queued(&repository.id): None breaks out of the loop, Some(item)
\* gets item.status = Running.
ProcessNextQueued(t) ==
    /\ threads[t].pc = "next_queued"
    /\ LET item == next_queued(services[t].repository_id)
       IN  threads' = [threads EXCEPT ![t] =
              IF IsSome(item)
              THEN [@ EXCEPT !.pc = "running_update", !.item = Unwrap(item),
                             !.status = StartedStatus(ItemStatus(Unwrap(item)))]
              ELSE [@ EXCEPT !.pc = "break"]]
    /\ UNCHANGED <<store, queues, services, http, main, counters, started, executions, probe>>

\* After the loop: the closure ends and the lock is dropped.
ProcessBreak(t) ==
    /\ threads[t].pc = "break"
    /\ Return(t)
    /\ UNCHANGED <<store, queues, http, main, counters, started, executions, probe>>

\* Where the thread is after a statement that call_webhooks follows: in the loop
\* over repository.webhooks, or, with no webhook, at the statement after the call.
CallWebhooks(t, calling, after) == IF threads[t].webhooks = <<>> THEN after ELSE calling

\* A drain that stops at the first update_status that returns Err.
OnUpdateErrorBreak(next) == "break"

\* if let Err(error) = queue_model.update_status(&item) { error!(..) }: the error
\* is logged and the drain goes on with the next statement.
OnUpdateError(next) == next

\* Queues::update_status, update(queue.find(&item.id)): status and exit_code of
\* the row are overwritten, whatever they were.
update_status_row(item_id, status) ==
    [k \in 1..Len(queue) |->
        IF queue[k].id = item_id
        THEN [queue[k] EXCEPT !.status = StatusInto(status)[1],
                              !.exit_code = StatusInto(status)[2]]
        ELSE queue[k]]

\* update_status(&item) with Running, the row; on Err the log row is not written
\* and the drain goes on to call_webhooks and the log directory.
ProcessRunningUpdate(t) ==
    /\ threads[t].pc = "running_update"
    /\ \E ok \in WriteOutcomes :
         /\ queue' = IF ok THEN update_status_row(threads[t].item, threads[t].status)
                     ELSE queue
         /\ threads' = [threads EXCEPT ![t].pc =
               IF ok THEN "running_log"
               ELSE OnUpdateError(CallWebhooks(t, "running_webhooks", "create_log"))]
         /\ WriteFault(ok)
    /\ started' = started \cup {threads[t].item}
    /\ UNCHANGED <<repositories, queue_logs, queues, services, http, main, job_count,
                   repository_writes, executions, probe>>

\* update_status(&item) with Running, the status-log row; then call_webhooks.
ProcessRunningLog(t) ==
    /\ threads[t].pc = "running_log"
    /\ \E ok \in WriteOutcomes : add_queue_log_item(threads[t].item, threads[t].status, ok)
    /\ threads' = [threads EXCEPT ![t].pc =
          CallWebhooks(t, "running_webhooks", "create_log")]
    /\ UNCHANGED <<repositories, queue, queues, services, http, main, job_count,
                   repository_writes, started, executions, probe>>

\* The environment of the littleci process, which Command::new inherits.
OsEnv == [key \in {"K1"} |-> "os"]

\* Command::env(key, value): the variable is set for the child, over what was
\* set or inherited under that name.
env(command, key, value) ==
    [k \in DOMAIN command \cup {key} |-> IF k = key THEN value ELSE command[k]]

RECURSIVE envs(_, _, _)
\* for (key, value) in map.iter() { command.env(key, value); } over the keys left.
envs(command, map, keys) ==
    IF keys = {} THEN command
    ELSE LET key == CHOOSE k \in keys : TRUE
         IN  envs(env(command, key, map[key]), map, keys \ {key})

\* A command that gets the data of the job first and the variables after it.
CommandEnvDataFirst(variables, data) ==
    envs(envs(OsEnv, data, DOMAIN data), variables, DOMAIN variables)

\* Command::new("/bin/sh"), then the variables of the repository, then the data
\* of the item.
CommandEnv(variables, data) ==
    envs(envs(OsEnv, variables, DOMAIN variables), data, DOMAIN data)

\* What create_dir_all, File::create / try_clone and the spawn of Command::status
\* can give.
LogOutcomes ==
    {"spawned"} \cup (IF MayFail THEN {"no_dir", "no_file", "spawn_failed"} ELSE {})

\* create_dir_all(&execution_dir), File::create(output.log), try_clone, and the
\* spawn of /bin/sh -c <run>:
\*   no directory: the error is logged, call_webhooks, next iteration;
\*   no file: return (the thread ends);
\*   the child cannot be launched: item.status = Failed(-1);
\*   otherwise the thread waits for the child.
ProcessCreateLog(t) ==
    /\ threads[t].pc = "create_log"
    /\ \E outcome \in LogOutcomes :
         CASE outcome = "no_dir" ->
                /\ threads' = [threads EXCEPT ![t].pc =
                      CallWebhooks(t, "terminal_webhooks", "find_by_id")]
                /\ Fault("log")
                /\ UNCHANGED <<services, executions, probe>>
           [] outcome = "no_file" ->
                /\ ReturnInLoop(t)
                /\ Fault("log")
                /\ UNCHANGED executions
           [] outcome = "spawn_failed" ->
                /\ threads' = [threads EXCEPT ![t] =
                      [@ EXCEPT !.pc = "terminal_update",
                                !.status = Failed(SPAWN_FAILED_CODE)]]
                /\ Fault("child")
                /\ UNCHANGED <<services, executions, probe>>
           [] OTHER ->
                /\ threads' = [threads EXCEPT ![t] =
                      [@ EXCEPT !.pc = "wait",
                                !.env = CommandEnv(threads[t].variables,
                                                   Row(threads[t].item).data)]]
                /\ executions' = executions (+) SetToBag({threads[t].item})
                /\ UNCHANGED <<services, faults>>
    /\ UNCHANGED <<store, queues, http, main, job_count, repository_writes, started,
                   probe>>

\* A match that takes every exit code for a failure.
TerminalStatusOfFailure(code) ==
    IF IsSome(code) THEN Failed(Unwrap(code)) ELSE Cancelled

\* match status.code(): a code other than SUCCESS_EXIT_CODE is Failed(code), the
\* success code is Completed, no code (a signal) is Cancelled.
TerminalStatus(code) ==
    IF IsSome(code)
    THEN IF Unwrap(code) # SUCCESS_EXIT_CODE THEN Failed(Unwrap(code)) ELSE Completed
    ELSE Cancelled

ChildOutcomes ==
    {Some(SUCCESS_EXIT_CODE)} \cup (IF MayFail THEN AbnormalOutcomes ELSE {})

\* command.status() returns Ok(status) with this status.code(): the item gets
\* its terminal status.
ChildEnded(t, code) ==
    /\ threads' = [threads EXCEPT ![t] =
          [@ EXCEPT !.pc = "terminal_update", !.status = TerminalStatus(code),
                    !.env = <<>>]]
    /\ IF code \in AbnormalOutcomes THEN Fault("child") ELSE UNCHANGED faults
    /\ UNCHANGED <<store, queues, services, http, main, job_count, repository_writes,
                   started, executions, probe>>

\* command.status() returns, the child has ended, and update_status(&item)
\* writes the row with the terminal status.
ProcessWait(t) ==
    /\ threads[t].pc = "wait"
    /\ \E code \in ChildOutcomes : ChildEnded(t, code)

\* update_status(&item) with the terminal status, the row.
ProcessTerminalUpdate(t) ==
    /\ threads[t].pc = "terminal_update"
    /\ \E ok \in WriteOutcomes :
         /\ queue' = IF ok THEN update_status_row(threads[t].item, threads[t].status)
                     ELSE queue
         /\ threads' = [threads EXCEPT ![t].pc =
               IF ok THEN "terminal_log"
               ELSE OnUpdateError(CallWebhooks(t, "terminal_webhooks", "find_by_id"))]
         /\ WriteFault(ok)
    /\ UNCHANGED <<repositories, queue_logs, queues, services, http, main, job_count,
                   repository_writes, started, executions, probe>>

\* update_status(&item) with the terminal status, the status-log row; then
\* call_webhooks and the next iteration.
ProcessTerminalLog(t) ==
    /\ threads[t].pc = "terminal_log"
    /\ \E ok \in WriteOutcomes : add_queue_log_item(threads[t].item, threads[t].status, ok)
    /\ threads' = [threads EXCEPT ![t].pc =
          CallWebhooks(t, "terminal_webhooks", "find_by_id")]
    /\ UNCHANGED <<repositories, queue, queues, services, http, main, job_count,
                   repository_writes, started, executions, probe>>

\* #[serde(tag = "status", content = "exit_code")] on ExecutionStatus: the name
\* of the variant under "status" and, for the one variant that holds a value,
\* the value under "exit_code".
SerializeStatus(status) ==
    CASE status = Cancelled -> [status |-> "cancelled", exit_code |-> None]
      [] status = Queued -> [status |-> "queued", exit_code |-> None]
      [] status = Running -> [status |-> "running", exit_code |-> None]
      [] status[1] = "Failed" -> [status |-> "failed", exit_code |-> Some(status[2])]
      [] status = Completed -> [status |-> "completed", exit_code |-> None]
      [] OTHER -> [status |-> "unknown", exit_code |-> None]

\* to_json_string(&QueueItemData::from(item.clone())): id, repository and the
\* flattened status.
QueueItemData(id, repository_id, status) ==
    [id |-> id, repository |-> repository_id,
     status |-> SerializeStatus(status).status,
     exit_code |-> SerializeStatus(status).exit_code]

\* client.post(webhook).body(json_data).send() gives Ok (TRUE) or Err (FALSE).
SendOutcomes == IF MayFail THEN {TRUE, FALSE} ELSE {TRUE}

\* A call_webhooks that ends the drain when a delivery fails.
AfterSendAbort(res, after) == IF res THEN after ELSE "break"

\* The result of send() is logged and dropped.
AfterSend(res, after) == after

\* One turn of `for webhook in repository.webhooks.iter()`, the one after `sent`
\* turns: the item as it is now is posted to the webhook; either result is only
\* logged; after the last turn call_webhooks returns.
Post(t, sent, after) ==
    /\ \E res \in SendOutcomes :
         /\ threads' = [threads EXCEPT ![t] =
               [@ EXCEPT !.posts = Append(@,
                             [webhook |-> threads[t].webhooks[sent + 1],
                              body |-> QueueItemData(threads[t].item,
                                                     Row(threads[t].item).repository_id,
                                                     threads[t].status),
                              res |-> res]),
                         !.pc = IF sent + 1 = Len(threads[t].webhooks)
                                THEN AfterSend(res, after)
                                ELSE @]]
         /\ IF res THEN UNCHANGED faults ELSE Fault("webhook")
    /\ UNCHANGED <<store, queues, services, http, main, job_count, repository_writes,
                   started, executions, probe>>

\* call_webhooks(&repository, &item) after the Running update_status.
ProcessRunningWebhooks(t) ==
    /\ threads[t].pc = "running_webhooks"
    /\ Post(t, Len(threads[t].posts), "create_log")

\* call_webhooks(&repository, &item) after the match on create_dir_all.
ProcessTerminalWebhooks(t) ==
    /\ threads[t].pc = "terminal_webhooks"
    /\ Post(t, Len(threads[t].posts) - Len(threads[t].webhooks), "find_by_id")

\* ------------------------------------------------------------ specification

Request(w) ==
    \/ \E slug \in Slugs : PushResolve(w, slug)
    \/ PushInsert(w)
    \/ PushLog(w)
    \/ PushNotify(w)
    \/ SendResponse(w)
    \/ \E name \in Names : Create(w, name)
    \/ \E id \in RepoIds, name \in Names : Save(w, id, name)
    \/ \E id \in RepoIds : Delete(w, id)

Process(t) ==
    \/ ProcessTryLock(t)
    \/ ProcessFindRepository(t)
    \/ ProcessNextQueued(t)
    \/ ProcessBreak(t)
    \/ ProcessRunningUpdate(t)
    \/ ProcessRunningLog(t)
    \/ ProcessCreateLog(t)
    \/ ProcessWait(t)
    \/ ProcessTerminalUpdate(t)
    \/ ProcessTerminalLog(t)

Next ==
    \/ QueueManagerNew
    \/ \E w \in HandlerIds : Request(w)
    \/ \E t \in ServiceIds : Process(t)

Spec == Init /\ [][Next]_vars

\* Every thread of the program gets its turn: a spawned thread runs, a handler
\* that has begun goes on to its response, the main thread constructs the
\* QueueManager. No request has to arrive.
MaxServices == 1 + MaxEvents
Handle(w) == PushInsert(w) \/ PushLog(w) \/ PushNotify(w) \/ SendResponse(w)
FairSpec ==
    /\ Spec
    /\ WF_vars(QueueManagerNew)
    /\ \A w \in HandlerIds : WF_vars(Handle(w))
    /\ \A t \in 1..MaxServices : WF_vars(t \in ServiceIds /\ Process(t))

\* ------------------------------------------------------- the notify routes

\* config::Trigger and config::GitTrigger
TriggerAny == <<"any">>
Git(git_trigger) == <<"git", git_trigger>>
GitTriggerAny == <<"any">>
GitTriggerHead(refs) == <<"head", refs>>
GitTriggerTag == <<"tag">>

\* GitReference
GitReferenceHead(name) == <<"Head", name>>
GitReferenceTag(name) == <<"Tag", name>>

\* The "ref" of a push payload, cut after "refs/heads/" or "refs/tags/".
FullRefs == {<<"refs/heads/", "master">>, <<"refs/heads/", "dev">>,
             <<"refs/tags/", "v1">>, <<"refs/pull/", "1">>, <<"refs/heads/", "">>}

\* impl Deserialize for GitReference: ^refs/heads/(.+) gives Head, ^refs/tags/(.+)
\* gives Tag, anything else Err("Invalid ref").
deserialize(full_ref) ==
    CASE full_ref[1] = "refs/heads/" /\ full_ref[2] # "" -> Some(GitReferenceHead(full_ref[2]))
      [] full_ref[1] = "refs/tags/" /\ full_ref[2] # "" -> Some(GitReferenceTag(full_ref[2]))
      [] OTHER -> None

\* The trigger lists a repository is given.
Triggers == {TriggerAny, Git(GitTriggerAny), Git(GitTriggerTag),
             Git(GitTriggerHead(<<>>)), Git(GitTriggerHead(<<"master">>)),
             Git(GitTriggerHead(<<"dev", "master">>))}
TriggerLists ==
    {<<>>} \cup {<<a>> : a \in Triggers} \cup {<<a, b>> : a, b \in Triggers}

\* notify_github, for trigger_ref in refs.iter(): a Head payload equal to the ref
\* clears should_skip.
RECURSIVE match_refs(_, _, _)
match_refs(refs, reference, should_skip) ==
    IF refs = <<>> THEN should_skip
    ELSE match_refs(Tail(refs), reference,
                    IF reference[1] = "Head" /\ Head(refs) = reference[2]
                    THEN FALSE ELSE should_skip)

\* A loop in which every trigger assigns should_skip, matching or not.
RECURSIVE match_triggers_last(_, _, _)
match_triggers_last(triggers, reference, should_skip) ==
    IF triggers = <<>> THEN should_skip
    ELSE LET trigger == Head(triggers)
         IN  CASE trigger = TriggerAny -> FALSE
               [] trigger = Git(GitTriggerAny) -> FALSE
               [] trigger = Git(GitTriggerTag) ->
                    match_triggers_last(Tail(triggers), reference,
                                        reference[1] # "Tag")
               [] OTHER ->
                    match_triggers_last(Tail(triggers), reference,
                                        match_refs(trigger[2][2], reference, TRUE))

\* notify_github, for trigger in triggers.into_iter(): Any and Git(Any) clear
\* should_skip and break, Git(Tag) clears it for a Tag payload, Git(Head(refs))
\* for a Head payload naming one of refs.
RECURSIVE match_triggers(_, _, _)
match_triggers(triggers, reference, should_skip) ==
    IF triggers = <<>> THEN should_skip
    ELSE LET trigger == Head(triggers)
         IN  CASE trigger = TriggerAny -> FALSE
               [] trigger = Git(GitTriggerAny) -> FALSE
               [] trigger = Git(GitTriggerTag) ->
                    match_triggers(Tail(triggers), reference,
                                   IF reference[1] = "Tag" THEN FALSE ELSE should_skip)
               [] OTHER ->
                    match_triggers(Tail(triggers), reference,
                                   match_refs(trigger[2][2], reference, should_skip))

\* request::Outcome of a guard: Success, or Failure((Status, SecretKeyError)).
Success == "Success"
NotFoundInvalid == "NotFound, Signature is invalid"
BadRequestInvalid == "BadRequest, Signature is invalid"
BadRequestMissing == "BadRequest, Signature was not found"
BadRequestBadData == "BadRequest, Invalid payload"
Failures == {NotFoundInvalid, BadRequestInvalid, BadRequestMissing, BadRequestBadData}

SKIPPED_MESSAGE == "Trigger rules not matched. No job queued"
REPOSITORY_NOT_FOUND == "Repository not found"

\* The secrets a client sends: the one of repository 1, the one repository 2
\* would have, the empty string.
Secrets == {GeneratedSecret(1), GeneratedSecret(2), EmptySecret}

\* secret_key_is_valid: SecStr equality with repository.secret.
secret_key_is_valid(secret, repository) == secret = repository.secret

\* A guard that looks at the secret before it looks for the repository.
from_request_secret_first(repository_slug, secret_key, key) ==
    LET repository == find_by_slug(repository_slug)
        supplied == IF IsSome(secret_key) THEN secret_key ELSE key
    IN  IF supplied = None THEN BadRequestMissing
        ELSE IF repository = None THEN NotFoundInvalid
        ELSE IF secret_key_is_valid(Unwrap(supplied), Unwrap(repository))
             THEN Success
             ELSE BadRequestInvalid

\* impl FromRequest for SecretKey: the repository of the slug in the path, then
\* the x-secret-key header and, only when there is no such header, the query
\* parameter key.
from_request(repository_slug, secret_key, key) ==
    LET repository == find_by_slug(repository_slug)
    IN  IF repository = None THEN NotFoundInvalid
        ELSE IF IsSome(secret_key)
             THEN IF secret_key_is_valid(Unwrap(secret_key), Unwrap(repository))
                  THEN Success
                  ELSE BadRequestInvalid
        ELSE IF IsSome(key)
             THEN IF secret_key_is_valid(Unwrap(key), Unwrap(repository))
                  THEN Success
                  ELSE BadRequestInvalid
        ELSE BadRequestMissing

\* A guard has failed or the handler has returned without a push: the response
\* is still to be written.
Answer(w, request, result) ==
    http' = [http EXCEPT ![w] = [IdleHandler EXCEPT !.pc = "respond", !.result = result,
                                                    !.request = Some(request)]]

\* GET and POST /notify/<repository>: the SecretKey guard, then notify_job.
Notify(w, repository_slug, secret_key, key) ==
    /\ Serving(w)
    /\ LET request == [route |-> "notify", repository |-> repository_slug,
                       secret_key |-> secret_key, key |-> key]
           outcome == from_request(repository_slug, secret_key, key)
       IN  IF outcome = Success
           THEN Push(w, repository_slug, Some(request))
           ELSE /\ Answer(w, request, outcome)
                /\ UNCHANGED <<store, engine, main, counters, started, executions, probe>>

\* HMAC-SHA1(secret, raw_body): a value that names the key and the message it
\* was computed from.
HmacSha1(secret, raw_body) == <<"sha1", secret, raw_body>>

\* The X-Hub-Signature headers a client sends.
Signatures == {HmacSha1(secret, raw_body) : secret \in Secrets, raw_body \in FullRefs}

\* A data guard that parses the body and never looks at the signature.
github_from_data_unsigned(repository_slug, signature, raw_body) ==
    IF find_by_slug(repository_slug) = None THEN NotFoundInvalid
    ELSE IF deserialize(raw_body) = None THEN BadRequestBadData
    ELSE Success

\* The guard of the payload of POST /notify/<repository>/github: the repository
\* of the slug, the X-Hub-Signature header against HMAC-SHA1(repository.secret,
\* raw_body), and only then the body.
github_from_data(repository_slug, signature, raw_body) ==
    LET repository == find_by_slug(repository_slug)
    IN  IF repository = None THEN NotFoundInvalid
        ELSE IF signature = None THEN BadRequestMissing
        ELSE IF Unwrap(signature) # HmacSha1(Unwrap(repository).secret, raw_body)
             THEN BadRequestInvalid
        ELSE IF deserialize(raw_body) = None THEN BadRequestBadData
        ELSE Success

\* notify_github: the payload guard, find_by_slug, the trigger loop, then
\* Skipped or notify_new_job.
NotifyGithub(w, repository_slug, signature, raw_body) ==
    /\ Serving(w)
    /\ LET request == [route |-> "github", repository |-> repository_slug,
                       signature |-> signature, raw_body |-> raw_body]
           outcome == github_from_data(repository_slug, signature, raw_body)
           repository == find_by_slug(repository_slug)
       IN  IF outcome # Success
           THEN /\ Answer(w, request, outcome)
                /\ UNCHANGED <<store, engine, main, counters, started, executions, probe>>
           ELSE IF repository = None
           THEN /\ Answer(w, request, REPOSITORY_NOT_FOUND)
                /\ UNCHANGED <<store, engine, main, counters, started, executions, probe>>
           ELSE IF match_triggers(Unwrap(repository).triggers,
                                  Unwrap(deserialize(raw_body)), TRUE)
           THEN /\ Answer(w, request, SKIPPED_MESSAGE)
                /\ UNCHANGED <<store, engine, main, counters, started, executions, probe>>
           ELSE Push(w, repository_slug, Some(request))

\* A store with one repository, with any of the trigger lists, and no job;
\* nothing constructed yet.
WebhookInit ==
    /\ \E triggers \in TriggerLists :
         repositories = [i \in RepoIds |->
             IF i = 1
             THEN Some([RepositoryRecord(1, <<"A">>, kebab_case(<<"A">>),
                                         GeneratedSecret(1), FALSE)
                          EXCEPT !.triggers = triggers])
             ELSE None]
    /\ queue = <<>>
    /\ queue_logs = [id \in 1..MaxEvents |-> <<>>]
    /\ queues = [s \in Slugs |-> 0]
    /\ services = <<>>
    /\ threads = <<>>
    /\ http = [w \in HandlerIds |-> IdleHandler]
    /\ main = "new"
    /\ job_count = 0
    /\ faults = [k \in FaultKinds |-> 0]
    /\ repository_writes = 0
    /\ started = {}
    /\ executions = EmptyBag
    /\ probe = NoProbe

\* The requests to the three notify routes, with and without what their guards
\* ask for.
WebhookRequest(w) ==
    \/ \E repository_slug \in Slugs, secret_key, key \in {None} \cup {Some(s) : s \in Secrets} :
         Notify(w, repository_slug, secret_key, key)
    \/ \E repository_slug \in Slugs, raw_body \in FullRefs,
          signature \in {None} \cup {Some(s) : s \in Signatures} :
         NotifyGithub(w, repository_slug, signature, raw_body)
    \/ PushInsert(w)
    \/ PushLog(w)
    \/ PushNotify(w)
    \/ SendResponse(w)

\* The main thread and the request threads. The drain threads are spawned and
\* left unscheduled: no step of theirs writes what a guard or a handler reads
\* (the repositories table, the QueueManager map).
WebhookNext ==
    \/ QueueManagerNew
    \/ \E w \in HandlerIds : WebhookRequest(w)

WebhookSpec == WebhookInit /\ [][WebhookNext]_vars

\* ----------------------------------------------------------------- shutdown

\* The values of QueueManager.queues: the services the map holds.
MappedServices == {queues[slug] : slug \in Slugs} \ {0}

\* QueueManager::shutdown, the first loop: notify_shutdown sets the service_state
\* of every service in the map to Inactive; then the first pass of the second
\* loop begins.
ShutdownNotify ==
    /\ main = "serving"
    /\ main' = "waiting"
    /\ services' = [t \in ServiceIds |->
                      IF t \in MappedServices
                      THEN [services[t] EXCEPT !.service_state = "Inactive"]
                      ELSE services[t]]
    /\ probe' = [NoProbe EXCEPT !.remaining = MappedServices]
    /\ UNCHANGED <<store, queues, threads, http, counters, started, executions>>

\* QueueService::is_processing, processing_queue.try_lock(): None when the lock
\* is held, and the service counts as active; otherwise the lock is taken, and
\* the guard lives until the end of the statement.
is_processing(t) ==
    IF services[t].processing_queue
    THEN /\ probe' = [probe EXCEPT !.remaining = @ \ {t}, !.active = TRUE]
         /\ UNCHANGED services
    ELSE /\ probe' = [probe EXCEPT !.remaining = @ \ {t}, !.held = t]
         /\ services' = [services EXCEPT ![t].processing_queue = TRUE]

\* The second loop of shutdown, .map(|q| q.is_processing()): the next service
\* of the pass is asked.
ShutdownProbe(t) ==
    /\ main = "waiting"
    /\ probe.held = 0
    /\ t \in probe.remaining
    /\ is_processing(t)
    /\ UNCHANGED <<store, queues, threads, http, main, counters, started, executions>>

\* .is_none() has been evaluated on the Some(guard): the temporary guard is
\* dropped.
ShutdownProbeDrop ==
    /\ main = "waiting"
    /\ probe.held # 0
    /\ services' = [services EXCEPT ![probe.held].processing_queue = FALSE]
    /\ probe' = [probe EXCEPT !.held = 0]
    /\ UNCHANGED <<store, queues, threads, http, main, counters, started, executions>>

\* The pass found a service processing: thread::sleep, then the next pass over
\* the map as it is then.
ShutdownSleep ==
    /\ main = "waiting"
    /\ probe.held = 0 /\ probe.remaining = {} /\ probe.active
    /\ probe' = [NoProbe EXCEPT !.remaining = MappedServices]
    /\ UNCHANGED <<store, engine, http, main, counters, started, executions>>

\* services_active is empty: the loop breaks and shutdown returns.
ShutdownReturn ==
    /\ main = "waiting"
    /\ probe.held = 0 /\ probe.remaining = {} /\ ~probe.active
    /\ main' = "returned"
    /\ UNCHANGED <<store, engine, http, counters, started, executions, probe>>

\* The program with a shutdown: once QueueManager::shutdown has returned the
\* process exits, and no thread takes another step.
ShutdownNext ==
    \/ main # "returned" /\ Next
    \/ ShutdownNotify
    \/ \E t \in ServiceIds : ShutdownProbe(t)
    \/ ShutdownProbeDrop
    \/ ShutdownSleep
    \/ ShutdownReturn

ShutdownSpec == Init /\ [][ShutdownNext]_vars

\* --------------------------------------------------- a restart of the process

\* The job rows the store holds when the process starts again.
PreBoot == 2

\* What a row left by the last run of the process can hold in status and
\* exit_code: a job still queued, a job that was running at shutdown, and a pair
\* the engine never writes, which ExecutionStatus::from reads as Unknown: a job
\* that failed with code 7 and whose status column was then set back to
\* "queued" by hand.
BootStatuses == {<<"queued", None>>, <<"running", None>>, <<"queued", Some(7)>>}

\* The status-log rows the last run wrote for such a row.
BootLogs(status) ==
    CASE status[1] = "running" ->
           <<NewQueueLogRecord(Queued), NewQueueLogRecord(Running)>>
      [] IsSome(status[2]) ->
           <<NewQueueLogRecord(Queued), NewQueueLogRecord(Running),
             NewQueueLogRecord(Failed(Unwrap(status[2])))>>
      [] OTHER -> <<NewQueueLogRecord(Queued)>>

\* The state at the start of main after an earlier run: repository a, repository
\* b (soft-deleted or not), PreBoot job rows of either repository with ids and
\* created_at in insertion order; nothing constructed yet.
BootInit ==
    /\ \E deleted \in BOOLEAN :
         repositories = [i \in RepoIds |->
             IF i = 1
             THEN Some(RepositoryRecord(1, <<"A">>, kebab_case(<<"A">>),
                                        GeneratedSecret(1), FALSE))
             ELSE Some(RepositoryRecord(i, <<"B">>, kebab_case(<<"B">>),
                                        GeneratedSecret(i), deleted))]
    /\ \E rows \in [1..PreBoot -> RepoIds \X BootStatuses] :
         /\ queue = [k \in 1..PreBoot |->
                       [id |-> k, repository_id |-> rows[k][1],
                        status |-> rows[k][2][1], exit_code |-> rows[k][2][2],
                        data |-> <<>>, created_at |-> k]]
         /\ queue_logs = [id \in 1..MaxEvents |->
                            IF id <= PreBoot THEN BootLogs(rows[id][2]) ELSE <<>>]
    /\ queues = [s \in Slugs |-> 0]
    /\ services = <<>>
    /\ threads = <<>>
    /\ http = [w \in HandlerIds |-> IdleHandler]
    /\ main = "new"
    /\ job_count = PreBoot
    /\ faults = [k \in FaultKinds |-> 0]
    /\ repository_writes = 0
    /\ started = {}
    /\ executions = EmptyBag
    /\ probe = NoProbe

\* The notify requests: the handlers that end in QueueManager::push.
NotifyRequest(w) ==
    \/ \E slug \in Slugs : PushResolve(w, slug)
    \/ PushInsert(w)
    \/ PushLog(w)
    \/ PushNotify(w)
    \/ SendResponse(w)

\* The restarted process with no request to the repositories API.
BootNext ==
    \/ QueueManagerNew
    \/ \E w \in HandlerIds : NotifyRequest(w)
    \/ \E t \in ServiceIds : Process(t)

BootSpec == BootInit /\ [][BootNext]_vars

BootFairSpec ==
    /\ BootSpec
    /\ WF_vars(QueueManagerNew)
    /\ \A w \in HandlerIds : WF_vars(Handle(w))
    /\ \A t \in 1..MaxServices : WF_vars(t \in ServiceIds /\ Process(t))

\* ------------------------------------------------------ outbound webhooks

\* The webhooks column of a repository that names one URL, or two.
WebhookLists == {<<"hook1">>, <<"hook1", "hook2">>}

\* A store with one repository that has webhooks, and no job.
DeliveryInit ==
    /\ \E webhooks \in WebhookLists :
         repositories = [i \in RepoIds |->
             IF i = 1
             THEN Some([RepositoryRecord(1, <<"A">>, kebab_case(<<"A">>),
                                         GeneratedSecret(1), FALSE)
                          EXCEPT !.webhooks = webhooks])
             ELSE None]
    /\ queue = <<>>
    /\ queue_logs = [id \in 1..MaxEvents |-> <<>>]
    /\ queues = [s \in Slugs |-> 0]
    /\ services = <<>>
    /\ threads = <<>>
    /\ http = [w \in HandlerIds |-> IdleHandler]
    /\ main = "new"
    /\ job_count = 0
    /\ faults = [k \in FaultKinds |-> 0]
    /\ repository_writes = 0
    /\ started = {}
    /\ executions = EmptyBag
    /\ probe = NoProbe

\* The process with notify requests and no request to the repositories API; its
\* drains call the webhooks.
DeliveryNext ==
    \/ BootNext
    \/ \E t \in ServiceIds : ProcessRunningWebhooks(t)
    \/ \E t \in ServiceIds : ProcessTerminalWebhooks(t)

DeliverySpec == DeliveryInit /\ [][DeliveryNext]_vars

\* The webhooks an update of the repository names: none of those it began with.
UpdatedWebhooks == <<"hook2">>

\* The process with notify requests, drains that call the webhooks, and updates
\* of the repository that change its webhooks.
UpdateNext ==
    \/ DeliveryNext
    \/ \E w \in HandlerIds :
          SaveRepository(w, [RequestRepository(1, <<"A">>)
                               EXCEPT !.webhooks = UpdatedWebhooks])

UpdateSpec == DeliveryInit /\ [][UpdateNext]_vars

\* ------------------------------------------------- the child's environment

\* The maps from names to values of one origin: Repository.variables with
\* values "var", ArbitraryData with values "data".
EnvKeys == {"K1", "K2"}
EnvMaps(value) == UNION {[keys -> {value}] : keys \in SUBSET EnvKeys}

\* The store found at start: one repository with variables, and one queued job
\* that an earlier run accepted with data.
EnvInit ==
    /\ \E variables \in EnvMaps("var") :
         repositories = [i \in RepoIds |->
             IF i = 1
             THEN Some([RepositoryRecord(1, <<"A">>, kebab_case(<<"A">>),
                                         GeneratedSecret(1), FALSE)
                          EXCEPT !.variables = variables])
             ELSE None]
    /\ \E data \in EnvMaps("data") :
         queue = <<[NewQueueRecord([id |-> 1, repository_id |-> 1, status |-> Queued,
                                    data |-> <<>>, created_at |-> 1])
                      EXCEPT !.data = data]>>
    /\ queue_logs = [id \in 1..MaxEvents |->
                       IF id = 1 THEN <<NewQueueLogRecord(Queued)>> ELSE <<>>]
    /\ queues = [s \in Slugs |-> 0]
    /\ services = <<>>
    /\ threads = <<>>
    /\ http = [w \in HandlerIds |-> IdleHandler]
    /\ main = "new"
    /\ job_count = 1
    /\ faults = [k \in FaultKinds |-> 0]
    /\ repository_writes = 0
    /\ started = {}
    /\ executions = EmptyBag
    /\ probe = NoProbe

EnvSpec == EnvInit /\ [][BootNext]_vars

\* ------------------------------------------------------- session tokens

\* Duration::from_secs(60)
TOKEN_SECONDS == 60

\* Readings of the system clock, in milliseconds since the epoch.
Instants ==
    {0, 1, 999, 1000, 30000, 59999, 60000, 60001, 60999, 61000, 120000, 3600000,
     59999999, 60000999, 60001000}

\* UserPayload::new: exp = (SystemTime::now() + 60 s).duration_since(UNIX_EPOCH)
\* .as_millis().
UserPayloadNew(now) == [exp |-> now + TOKEN_SECONDS * 1000]

\* Utc::now().timestamp(): the whole seconds since the epoch.
timestamp(now) == now \div 1000

\* decode(token, secret, &Validation::new(Algorithm::HS256)) of a token signed
\* with the secret: the exp claim is validated against the timestamp of now,
\* with no leeway.
decode(claims, now) ==
    IF claims.exp < timestamp(now) THEN "ExpiredSignature" ELSE "Ok"

\* POST /login with the credentials of a user, at the instant now: the response
\* carries the payload and its token.
Login(w, now) ==
    /\ Serving(w)
    /\ Answer(w, [route |-> "login", issued_at |-> now, now |-> now,
                  token |-> UserPayloadNew(now)], "ok")
    /\ UNCHANGED <<store, engine, main, counters, started, executions, probe>>

\* A request to a route with the AuthenticationPayload guard, at the instant
\* now, with the bearer token that a login at issued_at gave: Success when decode
\* gives Ok, else Unauthorized.
Authenticate(w, issued_at, now) ==
    /\ Serving(w)
    /\ issued_at <= now
    /\ Answer(w, [route |-> "bearer", issued_at |-> issued_at, now |-> now,
                  token |-> UserPayloadNew(issued_at)],
              IF decode(UserPayloadNew(issued_at), now) = "Ok"
              THEN "ok" ELSE "unauthorized")
    /\ UNCHANGED <<store, engine, main, counters, started, executions, probe>>

TokenNext ==
    \/ QueueManagerNew
    \/ \E w \in HandlerIds, now \in Instants : Login(w, now)
    \/ \E w \in HandlerIds, issued_at \in Instants, now \in Instants :
          Authenticate(w, issued_at, now)
    \/ \E w \in HandlerIds : SendResponse(w)

TokenSpec == Init /\ [][TokenNext]_vars

\* --------------------------------------------------- names of repositories

\* The names a POST /repositories body can carry: every string of at most MaxLen
\* characters over a letter of each case, a digit, the separator kebab_case
\* writes and one more character that is not alphanumeric.
MaxLen == 3
NameCharacters == {"A", "b", "1", "-", " "}
RequestNames == UNION {[1..n -> NameCharacters] : n \in 0..MaxLen}

\* The process with requests that create a repository, under any name, next to
\* the one the store starts with.
NamesNext ==
    \/ QueueManagerNew
    \/ \E w \in HandlerIds, name \in RequestNames : Create(w, name)

NamesSpec == Init /\ [][NamesNext]_vars

\* ------------------------------------------------------------------ claims

\* Where a drain thread is between the Running transition of its item and the
\* terminal transition: the Running row is written, the terminal row is not.
Executing(t) ==
    threads[t].pc \in {"running_log", "running_webhooks", "create_log", "wait",
                       "terminal_update"}

\* The repository row of a job row is there and not soft-deleted.
LiveRepository(repository_id) ==
    /\ IsSome(find_by_id(repository_id))
    /\ ~Unwrap(find_by_id(repository_id)).deleted

\* C1: at no instant are two drain threads executing (each between the Running
\* transition and the terminal transition of its job) two jobs of the same
\* repository.
C1_OneExecutionPerRepository ==
    \A t1, t2 \in ServiceIds :
        (/\ t1 # t2
         /\ services[t1].repository_id = services[t2].repository_id
         /\ Executing(t1)
         /\ Executing(t2))
        => threads[t1].item = threads[t2].item

\* A job row stored as Queued whose repository is not soft-deleted.
QueuedForLiveRepository(job_id) ==
    /\ job_id \in JobIds
    /\ Row(job_id).status = StatusInto(Queued)[1]
    /\ LiveRepository(Row(job_id).repository_id)

\* C2: when nothing goes wrong (no store write fails, every child ends with
\* the success code) and no request writes the repositories table, every job
\* stored as Queued for a non-deleted repository is eventually taken to
\* Running, with no further request needed.
C2_QueuedEventuallyRunning ==
    \A job_id \in 1..MaxEvents :
        (QueuedForLiveRepository(job_id) /\ FaultCount = 0 /\ repository_writes = 0)
        ~> (job_id \in started \/ FaultCount > 0 \/ repository_writes > 0)

\* C3: within a repository jobs are started in ascending created_at order:
\* when a drain starts a job, every job row of the same repository with a
\* smaller created_at has been started before.
C3_StartedInCreatedAtOrder ==
    [][\A job_id \in started' \ started :
         \A k \in 1..Len(queue) :
            (/\ queue[k].repository_id = Row(job_id).repository_id
             /\ queue[k].created_at < Row(job_id).created_at)
            => queue[k].id \in started]_vars

\* Two jobs of one repository have been started.
C3_TwoStarted ==
    \E a, b \in started :
        /\ a # b
        /\ Row(a).repository_id = Row(b).repository_id

TerminalStatuses == {"completed", "failed", "cancelled"}

\* C4: the persisted status of a job row starts as Queued and after that only
\* goes from Queued to Running and from Running to a terminal status.
C4_StatusSequence ==
    [][/\ \A k \in 1..Len(queue) :
            \/ queue'[k].status = queue[k].status
            \/ queue[k].status = "queued" /\ queue'[k].status = "running"
            \/ queue[k].status = "running" /\ queue'[k].status \in TerminalStatuses
       /\ \A k \in (Len(queue) + 1)..Len(queue') : queue'[k].status = "queued"]_vars

\* C5: when no store write fails and no request writes the repositories table,
\* every job row that is Running eventually has a terminal status, also when
\* the log directory or the log file of the job cannot be created.
C5_RunningEventuallyTerminal ==
    \A job_id \in 1..MaxEvents :
        (/\ job_id \in JobIds
         /\ Row(job_id).status = "running"
         /\ faults["store"] = 0
         /\ repository_writes = 0)
        ~> (\/ job_id \in JobIds /\ Row(job_id).status \in TerminalStatuses
            \/ faults["store"] > 0
            \/ repository_writes > 0)

\* C6: no job row goes from Queued to Running while its repository is
\* soft-deleted.
C6_NoStartAfterSoftDelete ==
    [][\A k \in 1..Len(queue) :
         (queue[k].status = "queued" /\ queue'[k].status = "running")
         => LiveRepository(queue[k].repository_id)]_vars

\* C7: a Push on a slug with no repository row, or with a soft-deleted one,
\* returns an error (for the deleted one "Repository has been deleted.") and
\* changes nothing: no job row, no status-log row, no entry in the map of
\* services, no drain thread.
C7_RejectedPush ==
    [][\A w \in HandlerIds, repository_slug \in Slugs :
         (/\ PushResolve(w, repository_slug)
          /\ ~(/\ IsSome(find_by_slug(repository_slug))
               /\ ~Unwrap(find_by_slug(repository_slug)).deleted))
         => /\ http'[w].pc = "respond"
            /\ http'[w].result =
                 IF IsSome(find_by_slug(repository_slug))
                 THEN "Repository has been deleted."
                 ELSE "Could not find repository"
            /\ UNCHANGED <<store, engine>>]_vars

\* A Push on the slug of a soft-deleted repository has returned its error.
C7_DeletedRejected ==
    \E w \in HandlerIds :
        /\ http[w].pc = "respond"
        /\ http[w].result = "Repository has been deleted."
        /\ \E i \in RepoIds : IsSome(repositories[i]) /\ Unwrap(repositories[i]).deleted

\* C8: a job row is inserted only while its repository row exists and is not
\* soft-deleted.
C8_InsertForLiveRepository ==
    [][\A k \in (Len(queue) + 1)..Len(queue') :
         LiveRepository(queue'[k].repository_id)]_vars

\* Push and SoftDelete have both acted on one repository: it has a job row, it
\* is soft-deleted, and a Push on its slug has returned the error.
C8_PushBeforeAndAfterDelete ==
    /\ \E k \in 1..Len(queue) : ~LiveRepository(queue[k].repository_id)
    /\ \E w \in HandlerIds : http[w].result = "Repository has been deleted."

\* C9: every job row and every status-log row has an exit_code if and only if
\* its status is "failed".
C9_ExitCodeIffFailed ==
    /\ \A k \in 1..Len(queue) : IsSome(queue[k].exit_code) <=> queue[k].status = "failed"
    /\ \A job_id \in DOMAIN queue_logs :
          \A k \in 1..Len(queue_logs[job_id]) :
             IsSome(queue_logs[job_id][k].exit_code)
             <=> queue_logs[job_id][k].status = "failed"

\* A job row and a status-log row are Failed with an exit code.
C9_FailedStored ==
    \E k \in 1..Len(queue) :
        /\ queue[k].status = "failed"
        /\ IsSome(queue[k].exit_code)
        /\ \E n \in 1..Len(queue_logs[queue[k].id]) :
              queue_logs[queue[k].id][n].status = "failed"

\* The handler is still inside Queues::push or QueueManager::push for this job.
InPush(job_id) ==
    \E w \in HandlerIds : IsSome(http[w].item) /\ Unwrap(http[w].item).id = job_id

\* C10: every job row whose Push has returned has at least one status-log row,
\* and the oldest of them has status "queued".
C10_FirstLogQueued ==
    \A k \in 1..Len(queue) :
        ~InPush(queue[k].id)
        => /\ queue_logs[queue[k].id] # <<>>
           /\ queue_logs[queue[k].id][1].status = "queued"

\* A drain thread is inside Queues::update_status for this job: the row is
\* written, add_queue_log_item has not returned yet.
InUpdateStatus(job_id) ==
    \E t \in ServiceIds :
        /\ threads[t].item = job_id
        /\ threads[t].pc \in {"running_log", "terminal_log"}

\* C11: for every job row whose status is running, completed, failed or
\* cancelled, once update_status has returned, there is a status-log row of
\* the job with that status and exit code.
C11_StatusHasLogRow ==
    \A k \in 1..Len(queue) :
        (/\ queue[k].status \in {"running"} \cup TerminalStatuses
         /\ ~InUpdateStatus(queue[k].id))
        => \E n \in 1..Len(queue_logs[queue[k].id]) :
              /\ queue_logs[queue[k].id][n].status = queue[k].status
              /\ queue_logs[queue[k].id][n].exit_code = queue[k].exit_code

\* C12: no job row and no status-log row holds the status "unknown", whatever
\* the drain read: also after next_queued returned a row whose status and
\* exit_code deserialize to Unknown.
C12_UnknownNeverWritten ==
    /\ \A k \in 1..Len(queue) : queue[k].status # StatusInto(Unknown)[1]
    /\ \A id \in 1..MaxEvents : \A n \in 1..Len(queue_logs[id]) :
          queue_logs[id][n].status # StatusInto(Unknown)[1]

\* A drain has started a job that next_queued read as Unknown and has written its
\* row and its log row: the job has the log rows of its failed run and, after
\* them, the running one of this run.
C12_UnknownRowStarted ==
    \E id \in started :
        /\ Len(queue_logs[id]) = 4
        /\ queue_logs[id][3].status = StatusInto(Failed(7))[1]
        /\ queue_logs[id][4].status = StatusInto(Running)[1]
        /\ Row(id).status = StatusInto(Running)[1]
        /\ Row(id).exit_code = None

\* The table of the trigger matcher: what a trigger matches.
Matches(trigger, reference) ==
    \/ trigger = TriggerAny
    \/ trigger = Git(GitTriggerAny)
    \/ trigger = Git(GitTriggerTag) /\ reference[1] = "Tag"
    \/ /\ trigger[1] = "git"
       /\ trigger[2][1] = "head"
       /\ reference[1] = "Head"
       /\ \E n \in 1..Len(trigger[2][2]) : trigger[2][2][n] = reference[2]

SomeTriggerMatches(triggers, reference) ==
    \E n \in 1..Len(triggers) : Matches(triggers[n], reference)

\* The request of handler w is one to the github route that passed the guard of
\* its payload, and the handler has decided between Skipped and notify_new_job.
GithubDecided(w) ==
    /\ IsSome(http[w].request)
    /\ Unwrap(http[w].request).route = "github"
    /\ http[w].result \notin Failures \cup {REPOSITORY_NOT_FOUND}

Reversed(triggers) == [n \in 1..Len(triggers) |-> triggers[Len(triggers) + 1 - n]]

\* C13: the github handler answers Skipped, and enqueues nothing, exactly when
\* no trigger of the repository matches the payload's reference; for every
\* reference the decision is the same for the list in the other order, and the
\* empty list skips.
C13_SkipIffNoTriggerMatches ==
    /\ \A w \in HandlerIds :
         GithubDecided(w) =>
           LET request == Unwrap(http[w].request)
               triggers == Unwrap(find_by_slug(request.repository)).triggers
               reference == Unwrap(deserialize(request.raw_body))
           IN  /\ (http[w].result = SKIPPED_MESSAGE)
                     <=> ~SomeTriggerMatches(triggers, reference)
               /\ (http[w].result = SKIPPED_MESSAGE)
                     <=> ~(http[w].pc \in {"push_insert", "push_log", "push_notify"})
               /\ http[w].result = SKIPPED_MESSAGE => http[w].item = None
    /\ \A i \in RepoIds : IsSome(repositories[i]) =>
         \A full_ref \in FullRefs : IsSome(deserialize(full_ref)) =>
           LET triggers == Unwrap(repositories[i]).triggers
               reference == Unwrap(deserialize(full_ref))
           IN  /\ match_triggers(triggers, reference, TRUE)
                    = match_triggers(Reversed(triggers), reference, TRUE)
               /\ match_triggers(triggers, reference, TRUE)
                    = ~SomeTriggerMatches(triggers, reference)
               /\ triggers = <<>> => match_triggers(triggers, reference, TRUE)

\* A signed github request for a repository with two triggers, neither of which
\* matches the payload, is answered Skipped.
C13_SkippedWithTriggers ==
    \E w \in HandlerIds :
        /\ GithubDecided(w)
        /\ http[w].result = SKIPPED_MESSAGE
        /\ Len(Unwrap(find_by_slug(Unwrap(http[w].request).repository)).triggers) = 2

\* Handler w holds a request to the generic notify route.
NotifyRequested(w) ==
    /\ IsSome(http[w].request)
    /\ Unwrap(http[w].request).route = "notify"

\* The secret the SecretKey guard compares: the header's, else the parameter's.
Supplied(request) ==
    IF IsSome(request.secret_key) THEN request.secret_key ELSE request.key

\* C14: a generic notify request that fails authentication is answered 404 when
\* its slug names no repository, whatever secret it carries, 400 Missing when
\* the repository is there and neither header nor parameter is, and 400 Invalid
\* when the secret compared differs from the repository's; a request that goes
\* on to the push has supplied the secret; and the step that rejects a request,
\* like the one that writes its response, adds no job row, no log row and no
\* drain thread.
C14_FailedAuthentication ==
    /\ [](\A w \in HandlerIds : NotifyRequested(w) =>
            LET request == Unwrap(http[w].request)
                repository == find_by_slug(request.repository)
            IN  IF http[w].result \in Failures
                THEN /\ http[w].pc = "respond"
                     /\ http[w].item = None
                     /\ http[w].result = NotFoundInvalid <=> repository = None
                     /\ http[w].result = BadRequestMissing
                           <=> (repository # None /\ Supplied(request) = None)
                     /\ http[w].result = BadRequestInvalid
                           <=> (/\ repository # None
                                /\ IsSome(Supplied(request))
                                /\ Unwrap(Supplied(request)) # Unwrap(repository).secret)
                ELSE /\ repository # None
                     /\ Supplied(request) = Some(Unwrap(repository).secret))
    /\ [][\A w \in HandlerIds :
            (NotifyRequested(w)' /\ http'[w].result \in Failures)
            => /\ UNCHANGED <<store, engine, counters, started, executions, probe>>
               /\ http[w].pc \in {"idle", "respond"}]_vars

\* A notify request with the wrong secret in the query parameter of a
\* repository that has a job row is being answered 400 Invalid.
C14_InvalidAnswered ==
    \E w \in HandlerIds :
        /\ NotifyRequested(w)
        /\ http[w].result = BadRequestInvalid
        /\ Unwrap(http[w].request).secret_key = None
        /\ Len(queue) > 0

\* C15: a generic notify request for an existing repository whose header or
\* query parameter carries the repository's secret is not rejected by the
\* guard.
C15_EitherSecretAccepted ==
    \A w \in HandlerIds : NotifyRequested(w) =>
        LET request == Unwrap(http[w].request)
            repository == find_by_slug(request.repository)
        IN  (/\ repository # None
             /\ \/ request.secret_key = Some(Unwrap(repository).secret)
                \/ request.key = Some(Unwrap(repository).secret))
            => http[w].result \notin Failures

\* The X-Hub-Signature of a github request is the HMAC-SHA1 of its body under
\* the secret of the repository its slug names.
Verified(request) ==
    /\ IsSome(find_by_slug(request.repository))
    /\ request.signature
         = Some(HmacSha1(Unwrap(find_by_slug(request.repository)).secret,
                         request.raw_body))

\* C16: a request to the github route for which the trigger loop has run
\* (answered Skipped, or on its way through the push) carries a verified
\* signature, and every job row that is inserted while a github request is
\* handled is inserted for a verified one.
C16_GithubEnqueuesOnlyVerified ==
    /\ [](\A w \in HandlerIds :
            GithubDecided(w) => Verified(Unwrap(http[w].request)))
    /\ [][Len(queue') > Len(queue) =>
            \E w \in HandlerIds :
               /\ http[w].pc = "push_insert"
               /\ queue' = Append(queue, NewQueueRecord(Unwrap(http[w].item)))
               /\ (IsSome(http[w].request) /\ Unwrap(http[w].request).route = "github")
                     => Verified(Unwrap(http[w].request))]_vars

\* The job row of a github request has been inserted: the handler is on its way
\* to the row's first log row.
C16_GithubJobInserted ==
    \E w \in HandlerIds :
        /\ GithubDecided(w)
        /\ http[w].pc = "push_log"
        /\ \E k \in 1..Len(queue) : queue[k].id = Unwrap(http[w].item).id

\* C17: the secret of a repository row is the one Repositories::create
\* generated for it: no request, an Update least of all, changes it.
C17_SecretNeverChanges ==
    \A i \in RepoIds :
        IsSome(repositories[i]) => Unwrap(repositories[i]).secret = GeneratedSecret(i)

\* The slug computed from the name belongs to a row with another id.
SlugOfAnother(name, id) ==
    \E j \in RepoIds :
        /\ j # id
        /\ IsSome(repositories[j])
        /\ Unwrap(repositories[j]).slug = kebab_case(name)

\* C18: no two repository rows that are not soft-deleted share a slug, and a
\* Create or an Update whose slug kebab_case(name) belongs to a row with another
\* id leaves the three tables as they are.
C18_SlugUnique ==
    /\ [](\A i, j \in RepoIds :
            (/\ i # j
             /\ IsSome(repositories[i]) /\ ~Unwrap(repositories[i]).deleted
             /\ IsSome(repositories[j]) /\ ~Unwrap(repositories[j]).deleted)
            => Unwrap(repositories[i]).slug # Unwrap(repositories[j]).slug)
    /\ [][\A w \in HandlerIds, name \in Names :
            /\ (Create(w, name) /\ SlugOfAnother(name, 0)) => UNCHANGED store
            /\ \A id \in RepoIds :
                 (Save(w, id, name) /\ SlugOfAnother(name, id)) => UNCHANGED store]_vars

\* Two repositories with the secrets they were created with, after two requests
\* to the repositories API and no failure of the store: the second request named
\* the slug of the other repository and was rejected.
C18_DuplicateRejected ==
    /\ repository_writes = 2
    /\ FaultCount = 0
    /\ \A i \in RepoIds :
         /\ IsSome(repositories[i])
         /\ ~Unwrap(repositories[i]).deleted
         /\ Unwrap(repositories[i]).secret = GeneratedSecret(i)

\* The command of this job is running: a drain thread waits in command.status().
Running_command(job_id) ==
    \E t \in ServiceIds : threads[t].pc = "wait" /\ threads[t].item = job_id

LeftRunning(job_id) ==
    /\ job_id \in JobIds
    /\ job_id <= PreBoot
    /\ Row(job_id).status = StatusInto(Running)[1]
    /\ job_id \notin started

\* C20: a job whose row says running when the process starts stays as it is:
\* no step, of QueueManager::new or of any drain, changes its row, adds a
\* status-log row for it, makes it the item of a drain thread or starts it.
C20_RunningLeftUntouched ==
    [][\A job_id \in 1..PreBoot :
         LeftRunning(job_id) =>
           /\ LeftRunning(job_id)'
           /\ Row(job_id)' = Row(job_id)
           /\ queue_logs'[job_id] = queue_logs[job_id]
           /\ \A t \in 1..Len(threads') : threads'[t].item # job_id]_vars

\* A drain has started and completed the queued job of a repository whose
\* older job was left running by the last run, and that one is still running.
C20_DrainPassedRunning ==
    /\ LeftRunning(1)
    /\ 2 \in started
    /\ Row(2).repository_id = Row(1).repository_id
    /\ Row(2).status = StatusInto(Completed)[1]

\* C21: when QueueManager::shutdown has returned, no drain thread is executing
\* a job, whether or not its service is still the one the map holds.
C21_ShutdownNoExecution ==
    main = "returned" => \A t \in ServiceIds : ~Executing(t)

\* The Push of this job has returned: the job is in the store and no handler
\* holds it any more.
Accepted(job_id) ==
    /\ job_id \in JobIds
    /\ ~InPush(job_id)

\* C22: when QueueManager::shutdown has returned, no job whose Push had
\* returned is still stored as Queued for a repository that is not deleted.
C22_ShutdownNoQueued ==
    main = "returned" =>
        \A job_id \in 1..MaxEvents :
            ~(Accepted(job_id) /\ QueuedForLiveRepository(job_id))

\* C23: when QueueManager::push returns for an item whose row is not in the
\* store, it returns an error and has spawned no drain thread.
C23_InsertFailureSurfaced ==
    [][\A w \in HandlerIds :
         (/\ http[w].pc = "push_notify"
          /\ http'[w].pc = "respond"
          /\ Unwrap(http[w].item).id \notin JobIds)
         => /\ http'[w].result # "ok"
            /\ threads' = threads]_vars

\* The status names of the terminal states.
TerminalNames == {"completed", "failed", "cancelled"}

\* A drain thread has finished an iteration of its loop for an item.
IterationDone(t) == threads[t].pc = "find_by_id" /\ threads[t].item # 0

\* C24: when a drain has finished with a job it took to Running, each webhook of
\* the repository has been posted to exactly twice, first in a round of posts
\* that carry "running" and no exit_code, then in a round of posts that carry a
\* terminal status, with an exit_code exactly when it is "failed".
C24_PostedRunningThenTerminal ==
    \A t \in ServiceIds :
        IterationDone(t) =>
            LET hooks == threads[t].webhooks
                posts == threads[t].posts
            IN  /\ Len(posts) = 2 * Len(hooks)
                /\ \A n \in 1..Len(hooks) :
                      /\ posts[n].webhook = hooks[n]
                      /\ posts[n].body.status = "running"
                      /\ posts[n].body.exit_code = None
                      /\ posts[Len(hooks) + n].webhook = hooks[n]
                      /\ posts[Len(hooks) + n].body.status \in TerminalNames
                      /\ IsSome(posts[Len(hooks) + n].body.exit_code)
                            <=> posts[Len(hooks) + n].body.status = "failed"

\* The statement a drain thread is at when the call_webhooks it is in returns.
AfterCall(pc) == IF pc = "running_webhooks" THEN "create_log" ELSE "find_by_id"

\* C25: a step that posts to a webhook writes nothing to the store and changes
\* nothing of the engine but the record of the post and the position of the
\* thread, which moves to the next webhook, or past the call after the last one,
\* whether the delivery succeeded or failed: the item and its status are kept, no
\* webhook is posted to again, the drain goes on.
C25_DeliveryResultIgnored ==
    [][\A t \in ServiceIds :
          Len(threads'[t].posts) > Len(threads[t].posts) =>
              LET post == threads'[t].posts[Len(threads'[t].posts)]
                  turn == IF threads[t].pc = "running_webhooks"
                          THEN Len(threads'[t].posts)
                          ELSE Len(threads'[t].posts) - Len(threads[t].webhooks)
              IN  /\ store' = store
                  /\ services' = services
                  /\ queues' = queues
                  /\ post.webhook = threads[t].webhooks[turn]
                  /\ threads'[t] =
                        [threads[t] EXCEPT
                            !.posts = Append(threads[t].posts, post),
                            !.pc = IF turn = Len(threads[t].webhooks)
                                   THEN AfterCall(threads[t].pc)
                                   ELSE threads[t].pc]]_vars

\* A drain has finished with a job one of whose deliveries failed, and the job's
\* row holds "completed".
C25_CompletedAfterFailedDelivery ==
    \E t \in ServiceIds :
        /\ IterationDone(t)
        /\ \E n \in 1..Len(threads[t].posts) : ~threads[t].posts[n].res
        /\ Row(threads[t].item).status = "completed"

\* C26: a thread that notify has spawned is never kept waiting at the lock, and
\* when it comes to the lock while a drain holds it, it ends there: the step
\* takes the thread away and changes nothing else, neither the store nor the
\* place, the item or the status of the drain that holds the lock.
C26_NotifyWhileHeld ==
    /\ [](\A t \in ServiceIds : threads[t].spawned > 0 => ENABLED ProcessTryLock(t))
    /\ [][\A t \in ServiceIds :
            (/\ services[t].processing_queue
             /\ threads'[t].spawned < threads[t].spawned)
            => /\ threads'[t] = [threads[t] EXCEPT !.spawned = @ - 1]
               /\ services' = services
               /\ store' = store
               /\ started' = started]_vars

\* The boot notify and the notifies of two pushes have each spawned a thread for
\* the only service; one of them holds the lock and waits for the child of job 1,
\* the first job it started, and the other two have ended. The thread of the
\* second notify was spawned when both rows were there: had it got the lock, it
\* would have run job 1 itself.
C26_NotifiedDuringDrain ==
    /\ Len(services) = 1
    /\ threads[1].pc = "wait" /\ threads[1].item = 1 /\ started = {1}
    /\ threads[1].spawned = 0
    /\ JobIds = {1, 2}
    /\ \A w \in HandlerIds : http[w].pc = "idle"

\* C27: the slug of every repository row is kebab_case of its name, and
\* kebab_case leaves it as it is: kebab_case(kebab_case(name)) = kebab_case(name)
\* for every name a repository was created with.
C27_KebabIdempotent ==
    \A i \in RepoIds :
        IsSome(repositories[i]) =>
            LET repository == Unwrap(repositories[i])
            IN  /\ repository.slug = kebab_case(repository.name)
                /\ kebab_case(repository.slug) = repository.slug
                /\ kebab_case(kebab_case(repository.name)) = kebab_case(repository.name)

\* A repository was created under a name that kebab_case changes in each of its
\* ways: a part is cut off at a character that is not alphanumeric, the parts are
\* joined with the separator and a letter is lowered.
C27_NameSplitJoinedLowered ==
    \E i \in RepoIds :
        /\ IsSome(repositories[i])
        /\ Unwrap(repositories[i]).name = <<"A", " ", "b">>
        /\ Unwrap(repositories[i]).slug = <<"a", "-", "b">>

\* The status and exit_code columns of a row.
Columns(row) == <<row.status, row.exit_code>>

\* C28: when the child of a job ends with exit code 0 the item becomes
\* Completed, with another exit code c it becomes Failed(c), killed by a signal
\* it becomes Cancelled, and when the child cannot be launched it becomes
\* Failed(-1); the terminal update writes the item's status to the row; and no
\* other step puts a terminal status in a row.
C28_TerminalFromChildOutcome ==
    [][/\ \A t \in ServiceIds :
            /\ \A code \in ChildOutcomes :
                  (threads[t].pc = "wait" /\ ChildEnded(t, code)) =>
                      threads'[t].status =
                          CASE code = Some(0) -> Completed
                            [] code = None -> Cancelled
                            [] OTHER -> Failed(Unwrap(code))
            /\ (threads[t].pc = "create_log" /\ threads'[t].pc = "terminal_update")
                  => threads'[t].status = Failed(-1)
            /\ (threads[t].pc = "terminal_update" /\ threads'[t].pc = "terminal_log") =>
                  Columns(Row(threads[t].item))' =
                      CASE threads[t].status = Completed -> <<"completed", None>>
                        [] threads[t].status = Cancelled -> <<"cancelled", None>>
                        [] OTHER -> <<"failed", Some(threads[t].status[2])>>
       /\ \A job_id \in JobIds :
            (/\ Columns(Row(job_id))' # Columns(Row(job_id))
             /\ Row(job_id)'.status \in TerminalNames)
            => \E t \in ServiceIds : /\ threads[t].pc = "terminal_update"
                                     /\ threads[t].item = job_id]_vars

\* The child of one job has ended with exit code 0 and its row holds completed;
\* the command of a later job could not be launched and its row holds failed
\* and -1.
C28_CompletedAndFailedRows ==
    \E job_id, other \in JobIds :
        /\ Columns(Row(job_id)) = <<"completed", None>>
        /\ Columns(Row(other)) = <<"failed", Some(-1)>>

\* The rows next_queued looks at for a repository: its rows with status queued.
QueuedRows(repository_id) ==
    {job_id \in JobIds : /\ Row(job_id).repository_id = repository_id
                         /\ Row(job_id).status = "queued"}

\* C29: a step of a drain in which a write of update_status fails (the update of
\* the row or the insert of the status-log row, for Running or for the terminal
\* status) leaves the lock with the drain and takes it to the statement after
\* the update_status, with its item and status; and a drain that asks for the
\* next job while its repository has queued rows takes the oldest of them.
C29_DrainSurvivesFailedUpdate ==
    [][\A t \in ServiceIds :
          /\ (/\ threads[t].pc \in {"running_update", "running_log",
                                     "terminal_update", "terminal_log"}
              /\ threads'[t].pc # threads[t].pc
              /\ faults'["store"] > faults["store"])
             => /\ services'[t].processing_queue
                /\ threads'[t] =
                      [threads[t] EXCEPT !.pc =
                          IF threads[t].pc \in {"running_update", "running_log"}
                          THEN CallWebhooks(t, "running_webhooks", "create_log")
                          ELSE CallWebhooks(t, "terminal_webhooks", "find_by_id")]
          /\ (/\ threads[t].pc = "next_queued"
              /\ threads'[t].pc # threads[t].pc
              /\ QueuedRows(services[t].repository_id) # {})
             => /\ services'[t].processing_queue
                /\ threads'[t].pc = "running_update"
                /\ threads'[t].item \in QueuedRows(services[t].repository_id)
                /\ \A job_id \in QueuedRows(services[t].repository_id) :
                      Row(threads'[t].item).created_at <= Row(job_id).created_at]_vars

\* The only thread that has run so far (the two other threads spawned for the
\* service have not come to the lock yet) waits for the child of job 2, after
\* the terminal update of job 1 has failed and left its row at running.
C29_SecondJobAfterFailedUpdate ==
    /\ Len(services) = 1
    /\ JobIds = {1, 2}
    /\ threads[1].spawned = 2
    /\ threads[1].pc = "wait" /\ threads[1].item = 2
    /\ Row(1).status = "running"
    /\ faults["store"] = 1 /\ faults["log"] = 0

\* C30: a step of a drain in which the log directory or the log file of its job
\* cannot be created leaves the lock with the drain and takes it on towards the
\* next iteration of its loop.
C30_DrainSurvivesLogFailure ==
    [][\A t \in ServiceIds :
          (/\ threads[t].pc = "create_log"
           /\ threads'[t].pc # threads[t].pc
           /\ faults'["log"] > faults["log"])
          => /\ services'[t].processing_queue
             /\ threads'[t].pc = CallWebhooks(t, "terminal_webhooks", "find_by_id")]_vars

\* The webhooks column of a repository's row as the store holds it.
StoredWebhooks(repository_id) == Unwrap(repositories[repository_id]).webhooks

\* C31: whenever a drain moves a job to Running, what it holds of the job's
\* repository is what the store holds at that moment: every update committed
\* before the job is started is in effect for it.
C31_StartedWithCommittedUpdate ==
    [][\A t \in ServiceIds :
          (threads[t].pc = "running_update" /\ threads'[t].pc # threads[t].pc)
          => threads[t].webhooks = StoredWebhooks(services[t].repository_id)]_vars

\* C31, amended: at the top of every iteration the drain takes the repository as
\* the store holds it then, keeps it until the iteration is over, and posts the
\* job of the iteration to these webhooks; an update committed before the top of
\* an iteration is in effect for its job.
C31_ExecutedAsReadAtTop ==
    [][\A t \in ServiceIds :
          /\ (threads[t].pc = "find_by_id" /\ threads'[t].pc = "next_queued")
                => threads'[t].webhooks = StoredWebhooks(services[t].repository_id)
          /\ (threads[t].pc \notin {"none", "find_by_id"} /\ threads'[t].pc # "none")
                => threads'[t].webhooks = threads[t].webhooks
          /\ \A n \in 1..Len(threads'[t].posts) :
                \E m \in 1..Len(threads'[t].webhooks) :
                    threads'[t].posts[n].webhook = threads'[t].webhooks[m]]_vars

\* The only thread that has run so far has finished with job 1 and now posts job
\* 2 to the webhook of an update.
C31_SecondJobPostedToUpdated ==
    /\ Len(services) = 1
    /\ JobIds = {1, 2}
    /\ threads[1].spawned = 2
    /\ Row(1).status = "completed"
    /\ threads[1].item = 2
    /\ threads[1].pc = "create_log"
    /\ threads[1].posts # <<>>
    /\ \A n \in 1..Len(threads[1].posts) : threads[1].posts[n].webhook = "hook2"

\* C32: the environment of every child holds exactly the names of the process
\* environment, of the repository's variables and of the job's data, each with
\* the value of the data if the data has the name, else of the variables if they
\* have it, else of the process environment.
C32_ChildEnvironment ==
    \A t \in ServiceIds :
        threads[t].pc = "wait" =>
            LET variables == threads[t].variables
                data == Row(threads[t].item).data
            IN  /\ DOMAIN threads[t].env =
                      DOMAIN OsEnv \cup DOMAIN variables \cup DOMAIN data
                /\ \A key \in DOMAIN threads[t].env :
                      threads[t].env[key] =
                          IF key \in DOMAIN data THEN data[key]
                          ELSE IF key \in DOMAIN variables THEN variables[key]
                          ELSE OsEnv[key]

\* A child runs whose job and repository both set K1, which the process
\* environment has too, and K2, which it has not: the child has the values of
\* the job's data.
C32_AllThreeCollide ==
    \E t \in ServiceIds :
        /\ threads[t].pc = "wait"
        /\ DOMAIN threads[t].variables = EnvKeys
        /\ DOMAIN Row(threads[t].item).data = EnvKeys
        /\ threads[t].env = [key \in EnvKeys |-> "data"]

\* C33: a thread of a service has its next step whatever the other services do;
\* when it comes to the lock of its service and finds it free it becomes the
\* drain, even while other services drain; and a drain that asks for the next
\* job while its repository has queued rows starts one, even while jobs of
\* other repositories run.
C33_RepositoriesDoNotExclude ==
    /\ [](\A t \in ServiceIds :
            (threads[t].spawned > 0 \/ threads[t].pc # "none") => ENABLED Process(t))
    /\ [][\A t \in ServiceIds :
            /\ (/\ threads'[t].spawned < threads[t].spawned
                /\ ~services[t].processing_queue)
               => /\ services'[t].processing_queue
                  /\ threads'[t].pc = "find_by_id"
            /\ (/\ threads[t].pc = "next_queued"
                /\ threads'[t].pc # threads[t].pc
                /\ QueuedRows(services[t].repository_id) # {})
               => threads'[t].pc = "running_update"]_vars

\* The children of two jobs of two different repositories run at the same time.
C33_TwoRepositoriesRunning ==
    \E t, u \in ServiceIds :
        /\ services[t].repository_id # services[u].repository_id
        /\ threads[t].pc = "wait" /\ threads[u].pc = "wait"
        /\ Row(threads[t].item).repository_id = services[t].repository_id
        /\ Row(threads[u].item).repository_id = services[u].repository_id
        /\ Row(threads[t].item).status = "running"
        /\ Row(threads[u].item).status = "running"

\* C34: a request that presents a session token more than 60 seconds after the
\* login that issued it is answered Unauthorized.
C34_TokenExpiresAfterSixtySeconds ==
    \A w \in HandlerIds :
        (/\ http[w].pc = "respond"
         /\ IsSome(http[w].request)
         /\ Unwrap(http[w].request).route = "bearer"
         /\ Unwrap(http[w].request).now - Unwrap(http[w].request).issued_at
               > 60 * 1000)
        => http[w].result = "unauthorized"

\* C35: the command of a job is spawned at most once: no job id has two children.
C35_SpawnedAtMostOnce ==
    \A job_id \in BagToSet(executions) : CopiesIn(job_id, executions) <= 1

\* C36: the service stored in the map under a slug has the repository_id of the
\* repository that owns the slug now.
C36_ServiceOfSlugOwner ==
    \A repository_slug \in Slugs :
        (queues[repository_slug] # 0 /\ IsSome(find_by_slug(repository_slug)))
        => services[queues[repository_slug]].repository_id
             = Unwrap(find_by_slug(repository_slug)).id

\* C37: soft deletion is permanent: a repository row with deleted = true has
\* deleted = true after every step.
C37_DeletedStaysDeleted ==
    [][\A id \in RepoIds :
          (IsSome(repositories[id]) /\ Unwrap(repositories[id]).deleted)
          => (IsSome(repositories'[id]) /\ Unwrap(repositories'[id]).deleted)]_vars

\* The job rows of a repository that are stored as Running.
RunningRows(repository_id) ==
    {k \in 1..Len(queue) :
        /\ queue[k].repository_id = repository_id
        /\ queue[k].status = StatusInto(Running)[1]}

\* C38: at every instant a repository has at most one job row stored as Running.
C38_OneRunningRowPerRepository ==
    \A repository_id \in RepoIds : Cardinality(RunningRows(repository_id)) <= 1

\* C39: processing_queue is free whenever no drain thread of the service is
\* running, on whatever path the last drain ended, and a notify thread that runs
\* then gets the lock and starts a drain.
C39_LockFreeAfterDrain ==
    /\ [](\A t \in ServiceIds :
            threads[t].pc = NoThreads.pc => ~services[t].processing_queue)
    /\ [][\A t \in ServiceIds :
            (threads[t].pc = NoThreads.pc /\ threads'[t].spawned < threads[t].spawned)
            => (threads'[t].pc = "find_by_id" /\ services'[t].processing_queue)]_vars

\* A drain has ended at the failure to create the log file of job 1, which is
\* left at running, and the drain of a later notify has taken job 2 to its end.
C39_DrainAfterLogFailure ==
    /\ JobIds = {1, 2}
    /\ Row(1).repository_id = Row(2).repository_id
    /\ Row(1).status = StatusInto(Running)[1]
    /\ Row(2).status = StatusInto(Completed)[1]
    /\ faults["log"] = 1
    /\ \A t \in ServiceIds : threads[t].pc = NoThreads.pc /\ threads[t].spawned = 0

\* C40: is_processing does not stand in the way of a drain: a notify thread that
\* runs while no drain thread of its service is running finds the lock free and
\* starts to drain.
C40_ProbeDoesNotInterfere ==
    [][\A t \in ServiceIds :
          (/\ threads[t].pc = NoThreads.pc
           /\ threads[t].spawned > 0
           /\ threads'[t].spawned = threads[t].spawned - 1)
          => threads'[t].pc = "find_by_id"]_vars

====
